---- MODULE Spec2Model ----
(***************************************************************************)
(* HomeController of farnsworth: the category/tile grid, its keyboard      *)
(* navigation, arrange ("move") mode, the press-and-hold accept key and    *)
(* the tile edit popup.                                                    *)
(*                                                                         *)
(* Indices are kept 0-based as in the JavaScript source; a tile sequence   *)
(* is a TLA+ sequence read through At, so that reads outside the array     *)
(* give undefined and writes past its end grow it, as JavaScript does.     *)
(*                                                                         *)
(* The hotkey registry is modelled as the source describes it (comment at  *)
(* lines 233-235): one binding per combo; adding a binding for a combo     *)
(* replaces the one that was there.                                        *)
(***************************************************************************)
EXTENDS Integers, Sequences, FiniteSets, TLC

\* ------------------------------------------------------------------ bounds
NumUserCats == 2
NumUserTiles == 3
MaxPhantom == 1

\* ------------------------------------------------------- program constants
NumSystemTiles == 4
Undef == 0

UserTiles == 1..NumUserTiles
SystemTiles == (NumUserTiles + 1)..(NumUserTiles + NumSystemTiles)
UserCats == 1..NumUserCats
System == NumUserCats + 1
Cats == UserCats \cup {System}

\* category.transient / tile.transient
CatTransient(c) == c = System
TileTransient(t) == t \in SystemTiles

\* category.order of the persisted categories (any strict order will do; this
\* one is not the order of the ids, so that the sort does something), and of
\* System: categoryList.length at the time it is built.
Order(c) == IF c = System THEN NumUserCats ELSE NumUserCats - c

RECURSIVE SortByOrder(_)
SortByOrder(S) ==
    IF S = {} THEN <<>>
    ELSE LET m == CHOOSE x \in S : \A y \in S : Order(x) <= Order(y)
         IN  <<m>> \o SortByOrder(S \ {m})

RECURSIVE Ascending(_)
Ascending(S) ==
    IF S = {} THEN <<>>
    ELSE LET m == CHOOSE x \in S : \A y \in S : x <= y
         IN  <<m>> \o Ascending(S \ {m})

\* tile.command: <<begins with 'about:farnsworth'?, what is left of it once
\* 'about:farnsworth/' is taken off>>. The tiles of the persisted categories
\* carry commands of programs to launch.
Command(t) ==
    IF t = NumUserTiles + 1 THEN <<TRUE, "add-tile">>
    ELSE IF t = NumUserTiles + 2 THEN <<TRUE, "edit-categories">>
    ELSE IF t = NumUserTiles + 3 THEN <<TRUE, "settings">>
    ELSE IF t = NumUserTiles + 4 THEN <<TRUE, "exit">>
    ELSE <<FALSE, "program">>

\* _.camelCase on the remainders that occur
CamelCase(r) ==
    IF r = "add-tile" THEN "addTile"
    ELSE IF r = "edit-categories" THEN "editCategories"
    ELSE r

\* The methods the controller has that take no argument.
Methods == {"addTile", "editTile", "exit", "editCategoires", "settings"}

\* ------------------------------------------------------- JavaScript arrays
Min(a, b) == IF a < b THEN a ELSE b
Max(a, b) == IF a > b THEN a ELSE b

\* s[i]
At(s, i) == IF i >= 0 /\ i < Len(s) THEN s[i + 1] ELSE Undef

\* s[i] = v  (a write past the end grows the array, the gap reads undefined;
\* a negative index sets a plain property and leaves the elements alone)
Put(s, i, v) ==
    IF i < 0 THEN s
    ELSE IF i < Len(s) THEN [s EXCEPT ![i + 1] = v]
    ELSE s \o [k \in 1..(i - Len(s)) |-> Undef] \o <<v>>

\* the start index splice() uses
SpliceStart(s, i) == IF i < 0 THEN Max(Len(s) + i, 0) ELSE Min(i, Len(s))

\* s.splice(i, 1)
SpliceRemove(s, i) ==
    LET st == SpliceStart(s, i)
    IN  IF st < Len(s) THEN SubSeq(s, 1, st) \o SubSeq(s, st + 2, Len(s)) ELSE s

\* s.splice(i, 0, v)
SpliceInsert(s, i, v) ==
    LET st == SpliceStart(s, i)
    IN  SubSeq(s, 1, st) \o <<v>> \o SubSeq(s, st + 1, Len(s))

\* -------------------------------------------------------------------- state
VARIABLES
    categoryList,            \* self.categoryList: sequence of categories
    tiles,                   \* category -> its tiles array
    selectedCategory,        \* self.selectedCategory (a category)
    selectedCategoryIndex,   \* self.selectedCategoryIndex
    selectedTile,            \* self.selectedTile (a tile, or Undef)
    selectedTileIndex,       \* self.selectedTileIndex
    moving,                  \* self.moving
    editing,                 \* self.editing
    holding,                 \* self.holding is non-null
    timerPending,            \* the $timeout of self.holding is still to fire
    enterBinding,            \* who has 'enter': "keydown"/"keyup" (controller), "dialog"
    arrowBinding,            \* who has 'left'/'right': "home" or "dialog"
    dialog,                  \* edit popup: "closed", "opening", "open"
    dialogAction,            \* $scope.action of the popup
    keyDown,                 \* the accept key is physically down
    location,                \* "home", or the view/exit the app has gone to
    lastOp,                  \* <<event, branch>> of the last handler run
    threw,                   \* the last handler raised an error
    phase,                   \* history of the current accept gesture
    acts,                    \* Activate calls since the gesture's press
    edits,                   \* startEditing calls since the gesture's press
    saves,                   \* SettingsService.save() calls so far
    launches,                \* commands handed to a launcher so far
    invoked,                 \* the controller method the last handler called, or "none"
    hotkeyDialogs            \* dialogs the HotkeyDialog service has built so far

navVars == <<tiles, selectedCategory, selectedCategoryIndex, selectedTile, selectedTileIndex>>
modeVars == <<moving, editing, holding, timerPending>>
bindVars == <<enterBinding, arrowBinding, dialog, dialogAction>>
gestureVars == <<phase, acts, edits>>
callVars == <<saves, launches, invoked, hotkeyDialogs>>
vars == <<categoryList, navVars, modeVars, bindVars, keyDown, location, lastOp, threw,
          gestureVars, callVars>>

\* Everything the program itself holds (lastOp, threw, phase, acts, edits
\* and keyDown record the history and the keyboard, not the controller).
progVars == <<categoryList, navVars, modeVars, bindVars, location>>

SystemTileSeq == [k \in 1..NumSystemTiles |-> NumUserTiles + k]

\* init(): lines 71-123, after SettingsService.get() gave a category map.
\* The map is the object the controller works on, so what was saved of an
\* earlier session has that session's System category in it.
\* lines 74-76: _.filter(self.categories, category => !category.transient)
KeptAtInit_All(c) == TRUE
KeptAtInit(c) == ~CatTransient(c)

InitCategoryList == Append(SortByOrder({c \in Cats : KeptAtInit(c)}), System)

Init ==
    /\ categoryList = InitCategoryList
    /\ \E owner \in [UserTiles -> UserCats] :
          tiles = [c \in Cats |->
                     IF c = System THEN SystemTileSeq
                     ELSE Ascending({t \in UserTiles : owner[t] = c})]
    /\ selectedCategoryIndex = 0
    /\ selectedCategory = InitCategoryList[1]
    /\ selectedTileIndex = 0
    /\ selectedTile = IF Len(tiles[selectedCategory]) > 0
                      THEN At(tiles[selectedCategory], 0) ELSE Undef
    /\ moving = FALSE
    /\ editing = FALSE
    /\ holding = FALSE
    /\ timerPending = FALSE
    /\ enterBinding = "keydown"
    /\ arrowBinding = "home"
    /\ dialog = "closed"
    /\ dialogAction = 0
    /\ keyDown = FALSE
    /\ location = "home"
    /\ lastOp = <<"init", "init">>
    /\ threw = FALSE
    /\ phase = "none"
    /\ acts = 0
    /\ edits = 0
    /\ saves = 0
    /\ launches = 0
    /\ invoked = "none"
    /\ hotkeyDialogs = 0

\* ------------------------------------------------------------- navigation
\* The result of a directional callback: the navigation state it leaves and
\* the branch it took.
NavResult(ts, cat, ci, tile, ti, branch) ==
    [tiles |-> ts, cat |-> cat, ci |-> ci, tile |-> tile, ti |-> ti, branch |-> branch]

NavSame(branch) ==
    NavResult(tiles, selectedCategory, selectedCategoryIndex, selectedTile,
              selectedTileIndex, branch)

\* line 137 / line 156: is there a tile to move to
HasRight_OffByOne(ti, len) == ti < len
HasRight(ti, len) == ti < len - 1

HasLeft(ti) == ti > 0

\* lines 139-141 / 158-160: var temp = tiles[j]; tiles[j] = selectedTile; tiles[i] = temp
SwapTiles_NoTemp(s, i, j, tile) ==
    LET s1 == Put(s, j, tile) IN Put(s1, i, At(s1, j))
SwapTiles(s, i, j, tile) ==
    LET temp == At(s, j) IN Put(Put(s, j, tile), i, temp)

\* lines 136 / 155 / 192 / 215: if(!self.editing)
NavigationFrozen_Never == FALSE
NavigationFrozen == editing

\* 'right' callback, lines 135-147
RightCallback ==
    IF ~NavigationFrozen
    THEN IF HasRight(selectedTileIndex, Len(tiles[selectedCategory]))
         THEN LET s0 == tiles[selectedCategory]
                  s1 == IF moving
                        THEN SwapTiles(s0, selectedTileIndex, selectedTileIndex + 1, selectedTile)
                        ELSE s0
              IN  NavResult([tiles EXCEPT ![selectedCategory] = s1], selectedCategory,
                            selectedCategoryIndex, At(s1, selectedTileIndex + 1),
                            selectedTileIndex + 1, IF moving THEN "swap" ELSE "select")
         ELSE NavSame("boundary")
    ELSE NavSame("editing")

\* 'left' callback, lines 154-166
LeftCallback ==
    IF ~NavigationFrozen
    THEN IF HasLeft(selectedTileIndex)
         THEN LET s0 == tiles[selectedCategory]
                  s1 == IF moving
                        THEN SwapTiles(s0, selectedTileIndex, selectedTileIndex - 1, selectedTile)
                        ELSE s0
              IN  NavResult([tiles EXCEPT ![selectedCategory] = s1], selectedCategory,
                            selectedCategoryIndex, At(s1, selectedTileIndex - 1),
                            selectedTileIndex - 1, IF moving THEN "swap" ELSE "select")
         ELSE NavSame("boundary")
    ELSE NavSame("editing")

\* selectProperCategoryTile, lines 171-185, on the tiles s of the category
\* just entered: the tiles, index and selected tile it leaves.
selectProperCategoryTile_NoInsert(s, ti, tile, mv) ==
    IF ti >= Len(s)
    THEN IF mv
         THEN LET s1 == Append(s, tile)
              IN  [s |-> s1, ti |-> Len(s1), tile |-> At(s1, Len(s1))]
         ELSE [s |-> s, ti |-> Len(s) - 1, tile |-> At(s, Len(s) - 1)]
    ELSE [s |-> s, ti |-> ti, tile |-> At(s, ti)]
selectProperCategoryTile(s, ti, tile, mv) ==
    IF ti >= Len(s)
    THEN IF mv
         THEN LET s1 == Append(s, tile)
              IN  [s |-> s1, ti |-> Len(s1), tile |-> At(s1, Len(s1))]
         ELSE [s |-> s, ti |-> Len(s) - 1, tile |-> At(s, Len(s) - 1)]
    ELSE IF mv
         THEN LET s1 == SpliceInsert(s, ti, tile)
              IN  [s |-> s1, ti |-> ti, tile |-> At(s1, ti)]
         ELSE [s |-> s, ti |-> ti, tile |-> At(s, ti)]

\* lines 195 / 218: a carried tile does not enter a transient category
RepelsMove_Never(c) == FALSE
RepelsMove(c) == CatTransient(c)

\* lines 199 / 222: self.selectedCategory.tiles.splice(self.selectedTileIndex, 1)
ReleaseCarried_Forgotten(s, ti) == s
ReleaseCarried(s, ti) == SpliceRemove(s, ti)

\* 'down' callback, lines 191-207
DownCallback ==
    IF ~NavigationFrozen
    THEN IF selectedCategoryIndex < Len(categoryList) - 1
         THEN LET dst == categoryList[selectedCategoryIndex + 2]
              IN  IF moving /\ RepelsMove(dst)
                  THEN NavSame("repelled")
                  ELSE LET t1 == IF moving
                                 THEN [tiles EXCEPT ![selectedCategory] =
                                          ReleaseCarried(@, selectedTileIndex)]
                                 ELSE tiles
                           r == selectProperCategoryTile(t1[dst], selectedTileIndex,
                                                         selectedTile, moving)
                       IN  NavResult([t1 EXCEPT ![dst] = r.s], dst,
                                     selectedCategoryIndex + 1, r.tile, r.ti,
                                     IF moving THEN "carry" ELSE "select")
         ELSE NavSame("boundary")
    ELSE NavSame("editing")

\* 'up' callback, lines 214-230
UpCallback ==
    IF ~NavigationFrozen
    THEN IF selectedCategoryIndex > 0
         THEN LET dst == categoryList[selectedCategoryIndex]
              IN  IF moving /\ RepelsMove(dst)
                  THEN NavSame("repelled")
                  ELSE LET t1 == IF moving
                                 THEN [tiles EXCEPT ![selectedCategory] =
                                          ReleaseCarried(@, selectedTileIndex)]
                                 ELSE tiles
                           r == selectProperCategoryTile(t1[dst], selectedTileIndex,
                                                         selectedTile, moving)
                       IN  NavResult([t1 EXCEPT ![dst] = r.s], dst,
                                     selectedCategoryIndex - 1, r.tile, r.ti,
                                     IF moving THEN "carry" ELSE "select")
         ELSE NavSame("boundary")
    ELSE NavSame("editing")

\* The controller is alive: it has not routed to another view or quit.
Alive == location = "home"

\* The positions <<category, index>> of the tiles arrays ts, and the number
\* of them that hold tile t (Undef: an undefined entry).
Slots(ts) == UNION {{<<c, i>> : i \in 1..Len(ts[c])} : c \in Cats}

TileCountIn(ts, t) == Cardinality({p \in Slots(ts) : ts[p[1]][p[2]] = t})

\* Undefined entries can be added to the arrays without end: the model stops
\* at MaxPhantom of them.
WithinCap(ts) == TileCountIn(ts, Undef) <= MaxPhantom

\* A handler that calls no controller method, saves nothing, launches nothing.
NoCalls == invoked' = "none" /\ UNCHANGED <<saves, launches, hotkeyDialogs>>

\* A directional key event handled by the controller's binding.
Navigate(event, r) ==
    /\ Alive
    /\ WithinCap(r.tiles)
    /\ tiles' = r.tiles
    /\ selectedCategory' = r.cat
    /\ selectedCategoryIndex' = r.ci
    /\ selectedTile' = r.tile
    /\ selectedTileIndex' = r.ti
    /\ lastOp' = <<event, r.branch>>
    /\ threw' = FALSE
    /\ NoCalls
    /\ UNCHANGED <<categoryList, modeVars, bindVars, keyDown, location, gestureVars>>

MoveRight == arrowBinding = "home" /\ Navigate("right", RightCallback)
MoveLeft == arrowBinding = "home" /\ Navigate("left", LeftCallback)
MoveDown == Navigate("down", DownCallback)
MoveUp == Navigate("up", UpCallback)

\* ------------------------------------------------------------- activation
\* Where a controller method routes to: addTile, editTile, settings, exit;
\* editCategoires has an empty body.
MethodTarget(func) ==
    IF func = "addTile" THEN "/edit-tile"
    ELSE IF func = "editTile" THEN "/edit-tile/selected"
    ELSE IF func = "settings" THEN "/settings"
    ELSE IF func = "exit" THEN "quit"
    ELSE location

\* line 381: if(_.has(self, func))
HasMethod(func) == func \in Methods

\* self.activate(tile), lines 367-385: whether it raises, the method it calls
\* ("none": no call), how many commands it hands to a launcher, and where the
\* app is afterwards. tile.command of a null/undefined tile raises a TypeError.
\* A command outside the about:farnsworth scheme falls through the only if.
Activate(t) ==
    IF t = Undef
    THEN [threw |-> TRUE, invoked |-> "none", launched |-> 0, location |-> location]
    ELSE LET cmd == Command(t)
             func == CamelCase(cmd[2])
         IN  IF cmd[1] /\ HasMethod(func)
             THEN [threw |-> FALSE, invoked |-> func, launched |-> 0,
                   location |-> MethodTarget(func)]
             ELSE [threw |-> FALSE, invoked |-> "none", launched |-> 0,
                   location |-> location]

\* What a handler that ran self.activate leaves of the calls it made.
Activated(a) ==
    /\ invoked' = a.invoked
    /\ launches' = launches + a.launched
    /\ UNCHANGED <<saves, hotkeyDialogs>>

\* ------------------------------------------------------------- accept key
\* line 244: if(self.editing)
SwallowAccept_Never == FALSE
SwallowAccept == editing

\* line 246: else if(self.moving)
Carrying_Never == FALSE
Carrying == moving

\* line 277: $timeout.cancel(self.holding); what is left pending of the timer
CancelTimer_Forgotten(pending) == pending
CancelTimer(pending) == FALSE

\* The callback addEnterHotkey(action) binds to 'enter', lines 243-282.
EnterCallback(event, action) ==
    IF SwallowAccept
    THEN /\ holding' = FALSE
         /\ lastOp' = <<event, "editing">>
         /\ threw' = FALSE
         /\ NoCalls
         /\ UNCHANGED <<moving, editing, timerPending, bindVars, location, gestureVars>>
    ELSE IF Carrying
    THEN /\ moving' = IF action = "keyup" THEN FALSE ELSE moving
         /\ lastOp' = <<event, IF action = "keyup" THEN "drop" ELSE "moving">>
         /\ threw' = FALSE
         /\ saves' = IF action = "keyup" THEN saves + 1 ELSE saves
         /\ invoked' = "none"
         /\ UNCHANGED <<launches, hotkeyDialogs>>
         /\ UNCHANGED <<editing, holding, timerPending, bindVars, location, gestureVars>>
    ELSE IF ~holding
    THEN /\ enterBinding' = "keyup"
         /\ holding' = TRUE
         /\ timerPending' = TRUE
         /\ phase' = "pending"
         /\ acts' = 0
         /\ edits' = 0
         /\ lastOp' = <<event, "hold">>
         /\ threw' = FALSE
         /\ NoCalls
         /\ UNCHANGED <<moving, editing, arrowBinding, dialog, dialogAction, location>>
    ELSE LET a == Activate(selectedTile)
         IN  /\ enterBinding' = "keydown"
             /\ timerPending' = CancelTimer(timerPending)
             /\ holding' = FALSE
             /\ threw' = a.threw
             /\ location' = a.location
             /\ acts' = acts + 1
             /\ phase' = IF timerPending THEN "tapped" ELSE phase
             /\ lastOp' = <<event, IF timerPending THEN "tap" ELSE "late">>
             /\ Activated(a)
             /\ UNCHANGED <<moving, editing, arrowBinding, dialog, dialogAction, edits>>

\* A key event no binding takes.
Unbound(event) ==
    /\ lastOp' = <<event, "unbound">>
    /\ threw' = FALSE
    /\ NoCalls
    /\ UNCHANGED <<modeVars, bindVars, location, gestureVars>>

\* ------------------------------------------------------------- edit popup
Actions == <<"arrange", "edit", "cancel", "delete">>

\* The then/finally of startEditing, lines 444-453, for the popup's outcome
\* (a dismissal rejects the promise: only finally runs). deleteTile is not a
\* method of the controller: calling it raises inside then, before anything
\* is removed or saved; finally runs all the same.
DialogClosed_NoFinallyAfterThrow(event, result) ==
    /\ moving' = IF result = "arrange" THEN TRUE ELSE moving
    /\ location' = IF result = "edit" THEN MethodTarget("editTile") ELSE location
    /\ threw' = (result = "delete")
    /\ invoked' = IF result = "edit" THEN "editTile" ELSE "none"
    /\ editing' = IF result = "delete" THEN editing ELSE FALSE
    /\ enterBinding' = "keydown"
    /\ arrowBinding' = "home"
    /\ dialog' = "closed"
    /\ lastOp' = <<event, result>>
    /\ UNCHANGED <<holding, timerPending, dialogAction, gestureVars,
                   saves, launches, hotkeyDialogs>>

DialogClosed(event, result) ==
    /\ moving' = IF result = "arrange" THEN TRUE ELSE moving
    /\ location' = IF result = "edit" THEN MethodTarget("editTile") ELSE location
    /\ threw' = (result = "delete")
    /\ invoked' = IF result = "edit" THEN "editTile" ELSE "none"
    /\ UNCHANGED <<saves, launches, hotkeyDialogs>>
    /\ editing' = FALSE
    /\ enterBinding' = "keydown"
    /\ arrowBinding' = "home"
    /\ dialog' = "closed"
    /\ lastOp' = <<event, result>>
    /\ UNCHANGED <<holding, timerPending, dialogAction, gestureVars>>

\* 'enter' callback of the popup, lines 434-438
DialogEnter(event) ==
    IF ~holding
    THEN DialogClosed(event, Actions[dialogAction + 1])
    ELSE /\ lastOp' = <<event, "held">>
         /\ threw' = FALSE
         /\ NoCalls
         /\ UNCHANGED <<modeVars, bindVars, location, gestureVars>>

\* The popup's controller runs (lines 401-440), some time after
\* $mdDialog.show: it binds right, left and enter.
DialogReady ==
    /\ Alive
    /\ dialog = "opening"
    /\ dialog' = "open"
    /\ dialogAction' = 0
    /\ arrowBinding' = "dialog"
    /\ enterBinding' = "dialog"
    /\ lastOp' = <<"dialog", "ready">>
    /\ threw' = FALSE
    /\ NoCalls
    /\ UNCHANGED <<categoryList, navVars, modeVars, keyDown, location, gestureVars>>

\* 'right' / 'left' callbacks of the popup, lines 414-428
DialogRight ==
    /\ Alive
    /\ arrowBinding = "dialog"
    /\ dialogAction' = IF dialogAction < Len(Actions) - 1 THEN dialogAction + 1 ELSE dialogAction
    /\ lastOp' = <<"right", "dialog">>
    /\ threw' = FALSE
    /\ NoCalls
    /\ UNCHANGED <<categoryList, navVars, modeVars, enterBinding, arrowBinding, dialog,
                   keyDown, location, gestureVars>>

DialogLeft ==
    /\ Alive
    /\ arrowBinding = "dialog"
    /\ dialogAction' = IF dialogAction > 0 THEN dialogAction - 1 ELSE dialogAction
    /\ lastOp' = <<"left", "dialog">>
    /\ threw' = FALSE
    /\ NoCalls
    /\ UNCHANGED <<categoryList, navVars, modeVars, enterBinding, arrowBinding, dialog,
                   keyDown, location, gestureVars>>

\* clickOutsideToClose, line 443
DialogDismiss ==
    /\ Alive
    /\ dialog = "open"
    /\ DialogClosed("dismiss", "dismissed")
    /\ UNCHANGED <<categoryList, navVars, keyDown>>

\* ------------------------------------------------------------- key events
\* keydown of the accept key (the keyboard repeats it while the key is held)
AcceptPress ==
    /\ Alive
    /\ keyDown' = TRUE
    /\ IF enterBinding = "keydown" THEN EnterCallback("press", "keydown")
       ELSE IF enterBinding = "dialog" THEN DialogEnter("press")
       ELSE Unbound("press")
    /\ UNCHANGED <<categoryList, navVars>>

\* keyup of the accept key
AcceptRelease ==
    /\ Alive
    /\ keyDown
    /\ keyDown' = FALSE
    /\ IF enterBinding = "keyup" THEN EnterCallback("release", "keyup")
       ELSE Unbound("release")
    /\ UNCHANGED <<categoryList, navVars>>

\* line 264: if(!self.selectedTile.transient)
Editable_Any(t) == TRUE
Editable(t) == ~TileTransient(t)

\* The $timeout callback of lines 263-271 runs, holdTime after the press.
TimerFire ==
    /\ Alive
    /\ timerPending
    /\ timerPending' = FALSE
    /\ IF selectedTile = Undef
       THEN /\ threw' = TRUE
            /\ phase' = "heldThrew"
            /\ lastOp' = <<"timer", "threw">>
            /\ NoCalls
            /\ UNCHANGED <<editing, dialog, location, acts, edits>>
       ELSE IF Editable(selectedTile)
       THEN /\ editing' = TRUE
            /\ dialog' = "opening"
            /\ edits' = edits + 1
            /\ phase' = "heldEdit"
            /\ threw' = FALSE
            /\ lastOp' = <<"timer", "edit">>
            /\ NoCalls
            /\ UNCHANGED <<location, acts>>
       ELSE LET a == Activate(selectedTile)
            IN  /\ threw' = a.threw
                /\ location' = a.location
                /\ acts' = acts + 1
                /\ phase' = "heldActivate"
                /\ lastOp' = <<"timer", "activate">>
                /\ Activated(a)
                /\ UNCHANGED <<editing, dialog, edits>>
    /\ UNCHANGED <<categoryList, navVars, moving, holding, enterBinding, arrowBinding,
                   dialogAction, keyDown>>

\* ------------------------------------------------------- HotkeyDialog service
\* The function the service returns, hotkey-dialog.js lines 231-233, calls the
\* constructor without new. The file is strict, so this is undefined in the
\* constructor and its first statement, self.wait() (line 61), raises a
\* TypeError: no dialog is built, whatever is chained on the call (prompt,
\* actions, wait(promise), show) never runs, and the dialog's controller
\* (lines 88-124) with it.
HotkeyDialogService ==
    /\ lastOp' = <<"hotkeyDialog", "threw">>
    /\ UNCHANGED <<categoryList, navVars, modeVars, bindVars, keyDown, location, threw,
                   gestureVars, callVars>>

Next ==
    \/ MoveRight
    \/ MoveLeft
    \/ MoveDown
    \/ MoveUp
    \/ AcceptPress
    \/ AcceptRelease
    \/ TimerFire
    \/ DialogReady
    \/ DialogRight
    \/ DialogLeft
    \/ DialogDismiss
    \/ HotkeyDialogService

Spec == Init /\ [][Next]_vars

TypeOK ==
    /\ categoryList = InitCategoryList
    /\ WithinCap(tiles)
    /\ selectedCategory \in Cats
    /\ selectedTile \in UserTiles \cup SystemTiles \cup {Undef}
    /\ moving \in BOOLEAN /\ editing \in BOOLEAN /\ holding \in BOOLEAN
    /\ timerPending \in BOOLEAN
    /\ enterBinding \in {"keydown", "keyup", "dialog"}
    /\ dialogAction \in 0..3
    /\ acts \in 0..3 /\ edits \in 0..1
    /\ saves = 0 /\ launches = 0 /\ hotkeyDialogs = 0
    /\ invoked \in Methods \cup {"none"}

\* ==================================================================== claims
SelectedTiles == tiles[selectedCategory]

TileCount(t) == TileCountIn(tiles, t)

\* C1: after init and after every directional operation, in or out of move
\* mode, selectedCategory is categoryList[selectedCategoryIndex], and when the
\* selected category has tiles, selectedTileIndex is one of its indices and
\* selectedTile is the tile at that index.
C1_SelectionInvariant ==
    /\ selectedCategoryIndex \in 0..(Len(categoryList) - 1)
    /\ selectedCategory = categoryList[selectedCategoryIndex + 1]
    /\ Len(SelectedTiles) > 0 =>
          /\ selectedTileIndex >= 0
          /\ selectedTileIndex < Len(SelectedTiles)
          /\ selectedTile = SelectedTiles[selectedTileIndex + 1]

AllTiles == UserTiles \cup SystemTiles

\* s without its entries equal to t
Without(s, t) == LET Keep(x) == x # t IN SelectSeq(s, Keep)

\* The event of the step being taken is ev (each handler records its event).
Step(ev) == lastOp'[1] = ev

\* The tile carried or selected really is the one at the selected index.
SelectionValid ==
    /\ selectedTile # Undef
    /\ selectedTileIndex >= 0
    /\ selectedTileIndex < Len(SelectedTiles)
    /\ SelectedTiles[selectedTileIndex + 1] = selectedTile

\* C2: between operations every tile that existed at init is in exactly one
\* category's tile sequence, exactly once.
C2_ExclusiveOwnership == \A t \in AllTiles : TileCount(t) = 1

\* A carried tile has just been taken into another category.
C2_Witness ==
    /\ moving
    /\ lastOp[2] = "carry"
    /\ selectedTile \in UserTiles

\* C3: in move mode with a valid selection and a non-transient category Y
\* below the selected category X, MoveDown takes one tile off X, adds one to
\* Y, leaves every other category alone, and the carried tile is then in Y
\* and nowhere else.
C3_MoveDownTransfers ==
    [][ ( /\ Step("down")
          /\ moving
          /\ C1_SelectionInvariant /\ SelectionValid
          /\ selectedCategoryIndex < Len(categoryList) - 1
          /\ ~CatTransient(categoryList[selectedCategoryIndex + 2]) )
        => LET X == selectedCategory
               Y == categoryList[selectedCategoryIndex + 2]
               t == selectedTile
           IN  /\ Len(tiles'[X]) = Len(tiles[X]) - 1
               /\ Len(tiles'[Y]) = Len(tiles[Y]) + 1
               /\ \A c \in Cats \ {X, Y} : tiles'[c] = tiles[c]
               /\ TileCountIn(tiles', t) = 1
               /\ \E i \in 1..Len(tiles'[Y]) : tiles'[Y][i] = t ]_vars

\* MoveDown has just appended a carried tile to the category below.
C3_Witness ==
    /\ moving
    /\ lastOp = <<"down", "carry">>
    /\ selectedTileIndex = Len(SelectedTiles)
    /\ At(SelectedTiles, Len(SelectedTiles) - 1) \in UserTiles

\* C4: in move mode, MoveDown/MoveUp towards a transient category changes
\* neither the tile sequences nor the selection.
C4_TransientRepels ==
    [][ ( /\ moving
          /\ \/ /\ Step("down")
                /\ selectedCategoryIndex < Len(categoryList) - 1
                /\ CatTransient(categoryList[selectedCategoryIndex + 2])
             \/ /\ Step("up")
                /\ selectedCategoryIndex > 0
                /\ CatTransient(categoryList[selectedCategoryIndex]) )
        => UNCHANGED progVars ]_vars

\* A carried tile has just been refused by the System category.
C4_Witness ==
    /\ moving
    /\ lastOp = <<"down", "repelled">>
    /\ SelectionValid
    /\ CatTransient(categoryList[selectedCategoryIndex + 2])

\* C5: MoveLeft at tile index 0, MoveRight at the last tile index, MoveUp at
\* category index 0 and MoveDown at the last category index change nothing
\* the controller holds, in and out of move mode.
C5_BoundaryNoOp ==
    [][ ( \/ Step("left") /\ arrowBinding = "home" /\ selectedTileIndex = 0
          \/ /\ Step("right") /\ arrowBinding = "home"
             /\ selectedTileIndex = Len(SelectedTiles) - 1
          \/ Step("up") /\ selectedCategoryIndex = 0
          \/ Step("down") /\ selectedCategoryIndex = Len(categoryList) - 1 )
        => UNCHANGED progVars ]_vars

\* MoveRight has just been refused at the last tile while carrying it.
C5_Witness ==
    /\ moving
    /\ lastOp = <<"right", "boundary">>
    /\ SelectionValid
    /\ selectedTileIndex = Len(SelectedTiles) - 1
    /\ Len(SelectedTiles) > 1

\* C6: in move mode with the carried tile at index i, a MoveRight with
\* i < n-1 (a MoveLeft with i > 0) leaves the carried tile selected at index
\* i+1 (i-1), keeps the other tiles in their relative order and the count at
\* n; k such steps in a row put it at i+k.
C6_MoveModeSwap ==
    [][ ( /\ moving
          /\ arrowBinding = "home"
          /\ SelectionValid
          /\ \/ Step("right") /\ selectedTileIndex < Len(SelectedTiles) - 1
             \/ Step("left") /\ selectedTileIndex > 0 )
        => LET d == IF Step("right") THEN 1 ELSE -1
               s == tiles[selectedCategory]
               s2 == tiles'[selectedCategory]
           IN  /\ selectedCategory' = selectedCategory
               /\ selectedCategoryIndex' = selectedCategoryIndex
               /\ selectedTile' = selectedTile
               /\ selectedTileIndex' = selectedTileIndex + d
               /\ Len(s2) = Len(s)
               /\ s2[selectedTileIndex' + 1] = selectedTile
               /\ Without(s2, selectedTile) = Without(s, selectedTile)
               /\ \A c \in Cats \ {selectedCategory} : tiles'[c] = tiles[c] ]_vars

\* [A,B,C] with A carried has become [B,C,A] by a second MoveRight.
C6_Witness ==
    /\ moving
    /\ lastOp = <<"right", "swap">>
    /\ SelectedTiles = <<2, 3, 1>>
    /\ selectedTile = 1
    /\ selectedTileIndex = 2

\* C7: a press in Idle followed by a release before the hold timer elapses
\* calls Activate once and Edit never, clears holding and cancels the timer,
\* and nothing more comes of that press: the timer does not fire later.
C7_Tap ==
    [][ /\ ( /\ Step("release")
             /\ phase = "pending" /\ timerPending
             /\ ~moving /\ ~editing )
           => /\ acts' = 1 /\ edits' = 0
              /\ ~holding' /\ ~timerPending'
              /\ phase' = "tapped"
        /\ phase = "tapped" => ~Step("timer")
        /\ (phase = "tapped" /\ phase' = "tapped") => UNCHANGED <<acts, edits>> ]_vars

\* A tap has just activated the selected tile.
C7_Witness ==
    /\ lastOp = <<"release", "tap">>
    /\ phase = "tapped"
    /\ acts = 1 /\ edits = 0
    /\ ~holding /\ ~timerPending

\* C8: when the hold timer of a press in Idle elapses on a non-transient
\* tile, Edit is called once (editing becomes true), and the release of the
\* accept key that follows calls no Activate.
C8_HoldEdits ==
    [][ /\ ( /\ Step("timer")
             /\ phase = "pending"
             /\ selectedTile # Undef /\ ~TileTransient(selectedTile) )
           => edits' = 1 /\ acts' = 0 /\ editing' /\ phase' = "heldEdit"
        /\ (phase = "heldEdit" /\ phase' = "heldEdit") => edits' = edits
        /\ (phase = "heldEdit" /\ Step("release")) => acts' = acts ]_vars

\* The accept key has been released after the hold opened the edit popup.
C8_Witness ==
    /\ phase = "heldEdit"
    /\ lastOp[1] = "release"
    /\ edits = 1 /\ acts = 0

\* C9: when the hold timer elapses on a transient tile, Activate is called
\* and Edit is not, and the release that follows calls no further Activate:
\* one Activate for the whole gesture.
C9_HoldTransientActivatesOnce ==
    [][ /\ ( /\ Step("timer")
             /\ phase = "pending"
             /\ selectedTile # Undef /\ TileTransient(selectedTile) )
           => acts' = 1 /\ edits' = 0 /\ ~editing'
        /\ (phase = "heldActivate" /\ Step("release")) => acts' = acts ]_vars

\* C10: holding is non-null only while a hold timer is pending.
C10_HoldingOnlyWhilePending == holding => timerPending

\* A step in which a handler ran self.activate.
Activates == lastOp'[2] \in {"tap", "late", "activate"}

\* C11: in move mode an accept press changes nothing of the controller, and
\* the accept release that follows ends move mode and asks for exactly one
\* save: releasing the accept key always leaves move mode.
C11_ReleaseLeavesMoveMode ==
    [][ /\ (moving /\ Step("press")) => UNCHANGED <<progVars, saves>>
        /\ (moving /\ Step("release")) => (~moving' /\ saves' = saves + 1) ]_vars

\* C13: while editing, a directional input of any of the four directions
\* leaves the selected category, both indices, the selected tile and every
\* tile sequence as they were, and nothing of it is applied later when
\* editing ends.
C13_EditingFreezesNavigation ==
    [][ /\ ( /\ editing
             /\ (Step("left") \/ Step("right") \/ Step("up") \/ Step("down")) )
           => UNCHANGED <<categoryList, navVars>>
        /\ (editing /\ ~editing') => UNCHANGED <<categoryList, navVars>> ]_vars

\* A directional input arrived while editing and met the editing check of
\* the controller's own callback.
C13_Witness ==
    /\ editing
    /\ lastOp \in {<<"left", "editing">>, <<"right", "editing">>,
                   <<"up", "editing">>, <<"down", "editing">>}

\* C14: editing is never true once the edit menu is closed, and whatever the
\* menu closes with (arrange, edit, delete, cancel, a dismissal, an action
\* whose handling raises), the step that closes it sets editing false and
\* puts the normal bindings back, the accept key bound on its press.
C14_MenuCloseRestores ==
    /\ [](dialog = "closed" => ~editing)
    /\ [][ (dialog # "closed" /\ dialog' = "closed")
           => (~editing' /\ enterBinding' = "keydown" /\ arrowBinding' = "home") ]_vars

\* The menu closed on delete, whose handling raised, and editing is over with
\* the accept key bound on its press.
C14_Witness ==
    /\ lastOp = <<"press", "delete">>
    /\ threw
    /\ dialog = "closed"
    /\ ~editing
    /\ enterBinding = "keydown" /\ arrowBinding = "home"

\* C15: when the edit menu resolves with delete, the selected tile leaves the
\* sequence of the selected category, which gets one shorter, and a save is
\* requested.
C15_DeleteRemovesTile ==
    [][ lastOp'[2] = "delete"
        => /\ TileCountIn(tiles', selectedTile) = 0
           /\ Len(tiles'[selectedCategory]) = Len(tiles[selectedCategory]) - 1
           /\ saves' = saves + 1 ]_vars

\* C16: Activate on a tile whose command is not of the internal scheme hands
\* the command to the external launcher, once.
C16_ExternalCommandLaunched ==
    [][ (Activates /\ selectedTile # Undef /\ ~Command(selectedTile)[1])
        => launches' = launches + 1 ]_vars

\* The remainders the internal scheme is said to have an operation for.
NamedOperations == {"add-tile", "edit-categories", "settings", "exit"}

\* C17: Activate on a tile whose command is of the internal scheme calls the
\* operation named by the camel-cased remainder when there is one (add-tile,
\* edit-categories, settings, exit) and calls nothing otherwise; it raises
\* nothing and leaves selection, tile sequences, moving and editing alone.
C17_InternalCommandDispatched ==
    [][ (Activates /\ selectedTile # Undef /\ Command(selectedTile)[1])
        => /\ invoked' = IF Command(selectedTile)[2] \in NamedOperations
                         THEN CamelCase(Command(selectedTile)[2])
                         ELSE "none"
           /\ ~threw'
           /\ UNCHANGED <<navVars, moving, editing>> ]_vars

\* C18: no handler of an input event (directional input, accept press,
\* accept release, hold timer, edit menu resolution) raises, in any
\* reachable state, the ones with no tile selected included.
C18_NoHandlerRaises == ~threw

\* C19: the index of a dialog with n actions is 0 when the dialog's inputs
\* are bound, stays within 0..n-1, goes up by one on right and down by one on
\* left except at the ends where it stays, and an accept input resolves the
\* dialog with the action at the index.
C19_DialogIndex ==
    /\ [](dialog = "open" => dialogAction \in 0..(Len(Actions) - 1))
    /\ [][ /\ lastOp' = <<"dialog", "ready">> => dialogAction' = 0
           /\ lastOp' = <<"right", "dialog">>
              => dialogAction' = Min(dialogAction + 1, Len(Actions) - 1)
           /\ lastOp' = <<"left", "dialog">>
              => dialogAction' = Max(dialogAction - 1, 0)
           /\ (enterBinding = "dialog" /\ ~keyDown /\ Step("press"))
              => (dialog' = "closed" /\ lastOp'[2] = Actions[dialogAction + 1]) ]_vars

\* C20: a dialog asked of the HotkeyDialog service with a guard promise is
\* built, its inputs unbound until the guard settles, so that the first
\* accept after that resolves it.
C20_GuardedDialogBuilt ==
    [][ Step("hotkeyDialog")
        => (hotkeyDialogs' = hotkeyDialogs + 1 /\ lastOp'[2] = "waiting") ]_vars

C22_ModeExclusion ==
    /\ [](~(moving /\ editing))
    /\ [][ /\ (~editing /\ editing') => ~moving
           /\ (~timerPending /\ timerPending') => (~moving /\ ~editing) ]_vars

\* An accept press arrived in move mode and started nothing.
C22_Witness ==
    /\ lastOp = <<"press", "moving">>
    /\ moving /\ ~editing
    /\ ~timerPending /\ ~holding

\* C23: while move mode lasts, selectedTile is the same tile after every
\* directional input, a MoveUp or MoveDown into a category no longer than
\* the current index (the carried tile is appended) included.
C23_CarriedTileKept ==
    [][ ( /\ moving /\ moving'
          /\ (Step("left") \/ Step("right") \/ Step("up") \/ Step("down")) )
        => selectedTile' = selectedTile ]_vars

\* C24: the tile sequence of System is its four initial tiles in their
\* initial order in every reachable state, and while moving the selected
\* category is not transient.
C24_SystemFixed ==
    /\ tiles[System] = SystemTileSeq
    /\ moving => ~CatTransient(selectedCategory)

\* A carried tile was turned back at the System category.
C24_Witness ==
    /\ lastOp = <<"down", "repelled">>
    /\ moving
    /\ categoryList[selectedCategoryIndex + 2] = System

\* C25: with no delete performed, the entries of all tile sequences together
\* are as many as init left, and each of them is a tile: no undefined entry
\* is ever written into a sequence.
C25_NoPhantomEntries ==
    /\ Cardinality(Slots(tiles)) = NumUserTiles + NumSystemTiles
    /\ TileCountIn(tiles, Undef) = 0

\* C26: with moving and editing both false, an accept press that a binding
\* takes starts the hold timer and performs no Activate; Activate runs only
\* on an accept release or when the hold timer expires.
C26_PressNeverActivates ==
    [][ /\ ( /\ ~moving /\ ~editing
             /\ Step("press") /\ lastOp'[2] # "unbound" )
           => (lastOp'[2] = "hold" /\ timerPending' /\ acts' = 0)
        /\ Activates => (Step("release") \/ Step("timer")) ]_vars

====
